---- MODULE Spec2Model ----
(***************************************************************************)
(* NeaRainCamera (custom_components/nea_sg_weather/camera.py): the rain    *)
(* map camera entity.  async_camera_image computes the 5-minute buckets of *)
(* the last 50 minutes, serves the cached animation when the cache gate    *)
(* matches, otherwise fetches the 10 tiles concurrently, composes the      *)
(* fetched ones into an animation and, on a full success, commits the      *)
(* timestamp/URL metadata and writes it to the host state store.           *)
(*                                                                         *)
(* An invocation is modelled in three steps: the call (GateHit or          *)
(* StartFetch), the resumption after gather (Join) and the return.  The    *)
(* wall clock is taken to be non-decreasing.  last_fanout, last_full and   *)
(* overlapped record the history that the properties speak about.          *)
(* Spec is the host polling the camera one call at a time; SpecFan follows *)
(* the fetches of one cycle one by one; SpecOverlap lets a second call     *)
(* start while the first is suspended in gather.                           *)
(*                                                                         *)
(* Time is counted in whole minutes since datetime.min.  A datetime is the *)
(* record [minutes |-> n], a timedelta is a number of minutes.  Python's   *)
(* None is the record None below; bytes, strings built by the code and     *)
(* images are records, so that every value of a field can be compared.     *)
(***************************************************************************)
EXTENDS Integers, Sequences, FiniteSets, TLC

VARIABLES
    clock,                      \* the wall clock read by datetime.now()
    _last_image,                \* self._last_image
    _last_image_time,           \* self._last_image_time
    _last_image_time_pretty,    \* self._last_image_time_pretty
    _last_url,                  \* self._last_url
    _last_state,                \* self._last_state
    _last_attributes,           \* self._last_attributes
    _updated_attributes,        \* self._updated_attributes
    states,                     \* hass.states, the host state store
    pc,                         \* per invocation: "idle", "awaiting", "returning"
    now,                        \* per invocation: local now
    timestamps,                 \* per invocation: local timestamps
    requests,                   \* per invocation: the GET requests issued
    replies,                    \* per invocation: what the network answered
    contents,                   \* per invocation: local contents
    result,                     \* per invocation: value returned or error raised
    last_fanout,                \* history: now of the latest cycle that fetched
    last_full,                  \* history: the latest cycle whose 10 fetches all gave a frame
    overlapped                  \* history: an invocation was called while another was in progress

cache == <<_last_image, _last_image_time, _last_image_time_pretty, _last_url>>
synced == <<_last_state, _last_attributes, _updated_attributes>>
locals == <<pc, now, timestamps, requests, replies, contents, result>>
history == <<last_fanout, last_full, overlapped>>
vars == <<clock, cache, synced, states, locals, history>>

(***************************************************************************)
(* Bounds of the model.                                                    *)
(***************************************************************************)
\* the clock stops here
MaxClock == 61
\* in one cycle at most this many fetches answer differently from the rest
MaxFlaky == 1
\* pixel width of a rain map tile
FrameWidth == 9

(***************************************************************************)
(* Program constants.                                                      *)
(***************************************************************************)
\* td = timedelta(minutes = 5)
BucketMinutes == 5
\* timedelta(minutes = 50)
LookbackMinutes == 50
\* _SG_TZ = pytz.timezone('Asia/Singapore'), UTC+8; the host clock is UTC
SgOffsetMinutes == 480

None == [none |-> TRUE]
Procs == {1, 2}
\* the clock starts one minute before a bucket boundary, 50 minutes of
\* buckets after datetime.min
StartClock == LookbackMinutes + 2 * BucketMinutes - 1

datetime_min == [minutes |-> 0]
DtAdd(dt, delta) == [minutes |-> dt.minutes + delta]
DtSub(dt1, dt2) == dt1.minutes - dt2.minutes
DtLess(dt1, dt2) == dt1.minutes < dt2.minutes

\* ceil_dt rounding down: dt - (dt - datetime.min) % delta
ceil_dt_down(dt, delta) == DtAdd(dt, 0 - (DtSub(dt, datetime_min) % delta))

\* def ceil_dt(dt, delta): return dt + (datetime.min - dt) % delta
ceil_dt(dt, delta) == DtAdd(dt, DtSub(datetime_min, dt) % delta)

\* timestamp.astimezone(_SG_TZ).strftime('%Y%m%d%H%M'): day, hour, minute
SgStamp(timestamp) ==
    LET m == timestamp.minutes + SgOffsetMinutes
    IN  <<m \div 1440, (m % 1440) \div 60, m % 60>>

\* line 113: url = RAIN_MAP_URL_PREFIX + <stamp> + RAIN_MAP_URL_SUFFIX
RainMapUrl(timestamp) ==
    [prefix |-> "RAIN_MAP_URL_PREFIX", stamp |-> SgStamp(timestamp),
     suffix |-> "RAIN_MAP_URL_SUFFIX"]

\* the URL stamped without astimezone(_SG_TZ)
LastUrlNaive(timestamp) ==
    [prefix |-> "RAIN_MAP_URL_PREFIX",
     stamp |-> <<timestamp.minutes \div 1440, (timestamp.minutes % 1440) \div 60,
                 timestamp.minutes % 60>>,
     suffix |-> "RAIN_MAP_URL_SUFFIX"]

\* line 172: the same expression, evaluated on timestamps[-1]
LastUrl(timestamp) ==
    [prefix |-> "RAIN_MAP_URL_PREFIX", stamp |-> SgStamp(timestamp),
     suffix |-> "RAIN_MAP_URL_SUFFIX"]

\* timestamps[0] in place of timestamps[-1]
FirstTimestamp(ts) == ts[1]

\* timestamps[-1]
LastTimestamp(ts) == ts[Len(ts)]

\* timestamps[-1].isoformat(): date, hour, minute of the naive datetime
isoformat(timestamp) ==
    [iso |-> <<timestamp.minutes \div 1440, (timestamp.minutes % 1440) \div 60,
               timestamp.minutes % 60>>]

entity_id == "camera.nea_rain_map"
other_entity == "weather.nea"
name == "NEA Rain Map"

(***************************************************************************)
(* The network, as get_image sees it.  A reply to one GET is either a      *)
(* response [status, content] or an exception raised by the client.        *)
(***************************************************************************)
Png(url) == [fmt |-> "png", url |-> url, width |-> FrameWidth]
Junk == [fmt |-> "junk"]

ReplyKinds == {"frame", "junk", "status", "timeout", "transport", "other"}

Reply(kind, url) ==
    CASE kind = "frame"     -> [status |-> 200, content |-> Png(url)]
      [] kind = "junk"      -> [status |-> 200, content |-> Junk]
      [] kind = "status"    -> [status |-> 503, content |-> Junk]
      [] kind = "timeout"   -> [exc |-> "TimeoutException"]
      [] kind = "transport" -> [exc |-> "RequestError"]
      [] kind = "other"     -> [exc |-> "RuntimeError"]

\* the exception raised inside the try block of get_image, "" when none:
\* async_client.get raises, or response.raise_for_status() does
RaisedInTry(reply) ==
    IF "exc" \in DOMAIN reply THEN reply.exc
    ELSE IF reply.status \in 200..299 THEN "" ELSE "HTTPStatusError"

\* get_image without its last handler, except Exception
get_image_two_handlers(timestamp, reply) ==
    LET exc == RaisedInTry(reply)
    IN  IF exc = "" THEN [ret |-> reply.content]
        ELSE IF exc \in {"TimeoutException"} THEN [ret |-> None]
        ELSE IF exc \in {"HTTPStatusError", "RequestError"} THEN [ret |-> None]
        ELSE [raise |-> exc]

\* get_image whose handler of a timeout lets the exception through
get_image_timeout_raises(timestamp, reply) ==
    LET exc == RaisedInTry(reply)
    IN  IF exc = "" THEN [ret |-> reply.content]
        ELSE IF exc \in {"TimeoutException"} THEN [raise |-> exc]
        ELSE [ret |-> None]

\* async def get_image(timestamp): the value returned, [ret |-> ...], or
\* the exception that leaves it, [raise |-> ...]
get_image(timestamp, reply) ==
    LET exc == RaisedInTry(reply)
    IN  IF exc = "" THEN [ret |-> reply.content]
        ELSE IF exc \in {"TimeoutException"} THEN [ret |-> None]
        ELSE IF exc \in {"HTTPStatusError", "RequestError"} THEN [ret |-> None]
        ELSE [ret |-> None]

\* the loop with start <= now in place of start < now
RECURSIVE BuildTimestampsInclusive(_, _, _, _)
BuildTimestampsInclusive(start, end, td, acc) ==
    IF ~DtLess(end, start)
    THEN BuildTimestampsInclusive(DtAdd(start, td), end, td, Append(acc, start))
    ELSE acc

\* the loop of lines 141-145
RECURSIVE BuildTimestamps(_, _, _, _)
BuildTimestamps(start, end, td, acc) ==
    IF DtLess(start, end)
    THEN BuildTimestamps(DtAdd(start, td), end, td, Append(acc, start))
    ELSE acc

\* the gate comparing with now in place of now - td
CacheGateNow(last_time, last_image, cur, td) ==
    /\ last_time = cur
    /\ ~(last_image = None)

\* the gate with the test of _last_image inverted
CacheGateNoImage(last_time, last_image, cur, td) ==
    /\ last_time = DtAdd(cur, 0 - td)
    /\ last_image = None

\* the gate with <= in place of ==
CacheGateOlder(last_time, last_image, cur, td) ==
    /\ last_time # None
    /\ ~DtLess(DtAdd(cur, 0 - td), last_time)
    /\ ~(last_image = None)

\* the gate without the test of _last_image_time
CacheGateImageOnly(last_time, last_image, cur, td) ==
    ~(last_image = None)

\* the cache gate of lines 136-137
CacheGate(last_time, last_image, cur, td) ==
    /\ last_time = DtAdd(cur, 0 - td)
    /\ ~(last_image = None)

\* Image.open(io.BytesIO(content))
Image_open(content) ==
    IF content.fmt = "png"
    THEN [ret |-> [src |-> content.url, width |-> content.width, bar |-> None]]
    ELSE [raise |-> "UnidentifiedImageError"]

\* the loop without its assignment to self._last_image
RECURSIVE DecodeLoopNoStore(_, _, _)
DecodeLoopNoStore(cs, k, acc) ==
    IF k > Len(cs) THEN acc
    ELSE IF cs[k] = None THEN DecodeLoopNoStore(cs, k + 1, acc)
    ELSE LET opened == Image_open(cs[k])
         IN  IF "raise" \in DOMAIN opened
             THEN [acc EXCEPT !.exc = opened.raise]
             ELSE DecodeLoopNoStore(cs, k + 1,
                     [acc EXCEPT !.images = Append(acc.images, opened.ret)])

\* the loop putting each decoded frame in front of the list
RECURSIVE DecodeLoopPrepend(_, _, _)
DecodeLoopPrepend(cs, k, acc) ==
    IF k > Len(cs) THEN acc
    ELSE IF cs[k] = None THEN DecodeLoopPrepend(cs, k + 1, acc)
    ELSE LET opened == Image_open(cs[k])
         IN  IF "raise" \in DOMAIN opened
             THEN [acc EXCEPT !.last_image = cs[k], !.exc = opened.raise]
             ELSE DecodeLoopPrepend(cs, k + 1,
                     [acc EXCEPT !.last_image = cs[k],
                                 !.images = <<opened.ret>> \o acc.images])

\* the loop of lines 149-153: acc is [last_image, images, exc]
RECURSIVE DecodeLoop(_, _, _)
DecodeLoop(cs, k, acc) ==
    IF k > Len(cs) THEN acc
    ELSE IF cs[k] = None THEN DecodeLoop(cs, k + 1, acc)
    ELSE LET opened == Image_open(cs[k])
         IN  IF "raise" \in DOMAIN opened
             THEN [acc EXCEPT !.last_image = cs[k], !.exc = opened.raise]
             ELSE DecodeLoop(cs, k + 1,
                     [acc EXCEPT !.last_image = cs[k],
                                 !.images = Append(acc.images, opened.ret)])

\* the progress computed over the 10 requested frames, idx / (10 - 1)
DrawProgressOfRequested(images) ==
    [k \in 1..Len(images) |->
        [images[k] EXCEPT !.bar = [num |-> (k - 1) * images[k].width,
                                   den |-> LookbackMinutes \div BucketMinutes - 1]]]

\* lines 158-163: frame idx (0-based) gets a line of length
\* idx / (len(images) - 1) * w, kept as the fraction num / den
DrawProgress(images) ==
    [k \in 1..Len(images) |->
        [images[k] EXCEPT !.bar = [num |-> (k - 1) * images[k].width,
                                   den |-> Len(images) - 1]]]

\* frames[0].save(buff, format='GIF', save_all=True, append_images=frames[1:], ...)
GifSave(frames) ==
    [fmt |-> "gif", frames |-> frames, duration |-> 1000, disposal |-> 2, loop |-> 0]

\* if len(images) > 1
EnoughFrames(images) == Len(images) > 1

\* the test of a full success off by one
AllFetchedButOne(images, ts) == Len(images) >= Len(ts) - 1

\* the test of a full success as a test that some frame was decoded
AllFetchedNonEmpty(images, ts) == Len(images) > 0

\* if len(images) == len(timestamps)
AllFetched(images, ts) == Len(images) = Len(ts)

\* a new dict with the two keys, in place of a copy of the attributes read
MergeAttributesFresh(attributes, pretty, url) ==
    ("Updated at" :> pretty) @@ ("URL" :> url)

\* lines 176-178
MergeAttributes(attributes, pretty, url) ==
    ("Updated at" :> pretty) @@ ("URL" :> url) @@ attributes

\* extra_state_attributes
extra_state_attributes ==
    ("Updated at" :> _last_image_time_pretty) @@ ("URL" :> _last_url)

(***************************************************************************)
(* Lines 149-182, what async_camera_image does once gather has returned    *)
(* cs: the new values of the fields and of the entity's stored state, and  *)
(* the value returned or the exception raised.                             *)
(***************************************************************************)
\* the fields as they are when the invocation resumes
Fields ==
    [image |-> _last_image, time |-> _last_image_time,
     pretty |-> _last_image_time_pretty, url |-> _last_url,
     state |-> _last_state, attributes |-> _last_attributes,
     updated |-> _updated_attributes, stored |-> states[entity_id],
     result |-> None]

\* lines 169-180, the commit of a full success
Commit(f, last) ==
    LET g == [f EXCEPT !.time = last, !.pretty = isoformat(last), !.url = LastUrl(last)]
    IN  IF f.stored = None
        THEN [g EXCEPT !.result = [raise |-> "AttributeError"]]
        ELSE [g EXCEPT !.state = f.stored.state,
                       !.attributes = f.stored.attributes,
                       !.updated = MergeAttributes(f.stored.attributes, g.pretty, g.url),
                       !.stored = [state |-> f.stored.state,
                                   attributes |-> MergeAttributes(f.stored.attributes,
                                                                  g.pretty, g.url)]]

\* the commit done for every animation, full or partial
ComposeAlwaysCommits(f, ts, images) ==
    IF ~EnoughFrames(images) THEN [f EXCEPT !.result = [ret |-> f.image]]
    ELSE Commit([f EXCEPT !.image = GifSave(DrawProgress(images)),
                          !.result = [ret |-> GifSave(DrawProgress(images))]],
                LastTimestamp(ts))

\* lines 155-182
Compose(f, ts, images) ==
    IF ~EnoughFrames(images) THEN [f EXCEPT !.result = [ret |-> f.image]]
    ELSE LET g == [f EXCEPT !.image = GifSave(DrawProgress(images)),
                            !.result = [ret |-> GifSave(DrawProgress(images))]]
         IN  IF AllFetched(images, ts) THEN Commit(g, LastTimestamp(ts)) ELSE g

\* lines 149-182
Decoded(ts, loop) ==
    IF loop.exc # ""
    THEN [Fields EXCEPT !.image = loop.last_image, !.result = [raise |-> loop.exc]]
    ELSE Compose([Fields EXCEPT !.image = loop.last_image], ts, loop.images)

AfterGather(ts, cs) ==
    Decoded(ts, DecodeLoop(cs, 1, [last_image |-> _last_image, images |-> <<>>, exc |-> ""]))

(***************************************************************************)
(* What the network may answer to the requests of one cycle: all requests  *)
(* get a reply of one kind (a frame, or one kind of failure), except at    *)
(* most MaxFlaky of them, which get a reply of another kind.  Two kinds of *)
(* failure are not mixed in one cycle.                                     *)
(***************************************************************************)
FailureKinds == {"status", "timeout", "transport", "other"}

FlakySets == {D \in SUBSET (1..(LookbackMinutes \div BucketMinutes)) : Cardinality(D) <= MaxFlaky}

ReplyPattern(reqs, base, dev, D) ==
    [k \in 1..Len(reqs) |-> Reply(IF k \in D THEN dev ELSE base, reqs[k])]

IsFrame(reply) == "content" \in DOMAIN reply /\ reply.status = 200 /\ reply.content.fmt = "png"

Idle == [p \in Procs |-> None]

Init ==
    /\ clock = StartClock
    /\ _last_image = None /\ _last_image_time = None
    /\ _last_image_time_pretty = None /\ _last_url = None
    /\ _last_state = None /\ _last_attributes = None /\ _updated_attributes = None
    /\ states = (entity_id :> None)
                @@ (other_entity :> [state |-> "rainy", attributes |-> ("friendly_name" :> "NEA")])
    /\ pc = [p \in Procs |-> "idle"]
    /\ now = Idle /\ timestamps = Idle /\ requests = Idle
    /\ replies = Idle /\ contents = Idle /\ result = Idle
    /\ last_fanout = None /\ last_full = None /\ overlapped = FALSE

\* lines 149-182 run without suspension: nothing else happens in between
Running == \E p \in Procs : pc[p] = "returning"

\* datetime.now() moves on
Tick ==
    /\ ~Running
    /\ clock < MaxClock
    /\ clock' = clock + 1
    /\ UNCHANGED <<cache, synced, states, locals, history>>

\* the host writes the entity's state from its properties
HostWriteState ==
    LET written == [state |-> "idle",
                    attributes |-> extra_state_attributes @@ ("friendly_name" :> name)]
    IN  /\ ~Running
        /\ states[entity_id] # written
        /\ states' = [states EXCEPT ![entity_id] = written]
        /\ UNCHANGED <<clock, cache, synced, locals, history>>

\* invocation i is called while another one is in progress
Overlaps(i) == \E p \in Procs \ {i} : pc[p] # "idle"

\* lines 133-134
Now == ceil_dt([minutes |-> clock], BucketMinutes)

\* lines 133-139: the cache gate matches, the cached image is returned
GateHit(i) ==
    /\ pc[i] = "idle"
    /\ CacheGate(_last_image_time, _last_image, Now, BucketMinutes)
    /\ pc' = [pc EXCEPT ![i] = "returning"]
    /\ now' = [now EXCEPT ![i] = Now]
    /\ result' = [result EXCEPT ![i] = [ret |-> _last_image]]
    /\ overlapped' = (overlapped \/ Overlaps(i))
    /\ UNCHANGED <<clock, cache, synced, states, timestamps, requests, replies,
                   contents, last_fanout, last_full>>

\* lines 133-147: the gate does not match, the 10 fetches are issued and
\* the invocation is suspended in gather
StartFetch(i) ==
    /\ pc[i] = "idle"
    /\ ~CacheGate(_last_image_time, _last_image, Now, BucketMinutes)
    /\ LET ts == BuildTimestamps(DtAdd(Now, 0 - LookbackMinutes), Now, BucketMinutes, <<>>)
       IN  /\ timestamps' = [timestamps EXCEPT ![i] = ts]
           /\ requests' = [requests EXCEPT ![i] = [k \in 1..Len(ts) |-> RainMapUrl(ts[k])]]
    /\ pc' = [pc EXCEPT ![i] = "awaiting"]
    /\ now' = [now EXCEPT ![i] = Now]
    /\ last_fanout' = Now
    /\ overlapped' = (overlapped \/ Overlaps(i))
    /\ UNCHANGED <<clock, cache, synced, states, replies, contents, result, last_full>>

\* asyncio.gather: the value it returns, or the exception of a get_image
Gather(got) ==
    IF \E k \in 1..Len(got) : "raise" \in DOMAIN got[k]
    THEN [raise |-> got[CHOOSE k \in 1..Len(got) : "raise" \in DOMAIN got[k]].raise]
    ELSE [ret |-> [k \in 1..Len(got) |-> got[k].ret]]

\* lines 147-182: every fetch has ended with the replies rs, the invocation
\* resumes and runs to its return (or to the exception that ends it)
Resume(i, rs) ==
    LET ts == timestamps[i]
    IN  \E gathered \in {Gather([k \in 1..Len(ts) |-> get_image(ts[k], rs[k])])} :
        /\ replies' = [replies EXCEPT ![i] = rs]
        /\ IF "raise" \in DOMAIN gathered
           THEN /\ result' = [result EXCEPT ![i] = gathered]
                /\ UNCHANGED <<cache, synced, states, contents, last_full>>
           ELSE \E r \in {AfterGather(ts, gathered.ret)} :
                    /\ contents' = [contents EXCEPT ![i] = gathered.ret]
                    /\ _last_image' = r.image
                    /\ _last_image_time' = r.time
                    /\ _last_image_time_pretty' = r.pretty
                    /\ _last_url' = r.url
                    /\ _last_state' = r.state
                    /\ _last_attributes' = r.attributes
                    /\ _updated_attributes' = r.updated
                    /\ states' = [states EXCEPT ![entity_id] = r.stored]
                    /\ result' = [result EXCEPT ![i] = r.result]
                    /\ last_full' = IF \A k \in 1..Len(ts) : IsFrame(rs[k])
                                    THEN [now |-> now[i], image |-> r.image]
                                    ELSE last_full

Join(i) ==
    /\ pc[i] = "awaiting"
    /\ \E base \in ReplyKinds, dev \in ReplyKinds, D \in FlakySets :
         /\ base # "junk"
         /\ (D = {}) <=> (dev = base)
         /\ ~(base \in FailureKinds /\ dev \in FailureKinds) \/ D = {}
         /\ Resume(i, ReplyPattern(requests[i], base, dev, D))
    /\ pc' = [pc EXCEPT ![i] = "returning"]
    /\ UNCHANGED <<clock, now, timestamps, requests, last_fanout, overlapped>>

\* the caller receives the result; the locals of the invocation are gone
Return(i) ==
    /\ pc[i] = "returning"
    /\ pc' = [pc EXCEPT ![i] = "idle"]
    /\ now' = [now EXCEPT ![i] = None]
    /\ timestamps' = [timestamps EXCEPT ![i] = None]
    /\ requests' = [requests EXCEPT ![i] = None]
    /\ replies' = [replies EXCEPT ![i] = None]
    /\ contents' = [contents EXCEPT ![i] = None]
    /\ result' = [result EXCEPT ![i] = None]
    /\ UNCHANGED <<clock, cache, synced, states, history>>

\* the host polls the camera one call at a time
Sequential == \A p \in Procs : pc[p] = "idle"

Next ==
    \/ Tick
    \/ HostWriteState
    \/ Sequential /\ GateHit(1)
    \/ Sequential /\ StartFetch(1)
    \/ Join(1)
    \/ Return(1)

Spec == Init /\ [][Next]_vars

(***************************************************************************)
(* Vocabulary of the properties.                                           *)
(***************************************************************************)
\* t rounded up to a whole number of buckets, computed by division
RoundedUp(t) == [minutes |-> BucketMinutes * ((t + BucketMinutes - 1) \div BucketMinutes)]
\* the bucket before dt
Before(dt) == [minutes |-> dt.minutes - BucketMinutes]
\* a reply that ends the fetch without bytes
IsFailure(reply) == "exc" \in DOMAIN reply \/ reply.status # 200
\* the number of fetches of a cycle that yielded a frame
FrameCount(rs) == Cardinality({k \in 1..Len(rs) : IsFrame(rs[k])})
\* every fetch of the cycle ended with a frame or with absence
FramesOrAbsent(rs) == \A k \in 1..Len(rs) : IsFrame(rs[k]) \/ IsFailure(rs[k])
\* the step in which invocation i is called, and the step in which it
\* resumes after gather
CallStep(i) == pc[i] = "idle" /\ pc'[i] # "idle"
ResumeStep(i) == pc[i] = "awaiting" /\ pc'[i] = "returning"
\* invocation i was served by the cache gate and is about to return
ServedByGate(i) == pc[i] = "returning" /\ requests[i] = None
IsAnimation(image, n) == image # None /\ image.fmt = "gif" /\ Len(image.frames) = n
\* the URLs, in request order, of the requests of a cycle that yielded a frame
FrameUrls(reqs, rs) ==
    LET idx == SelectSeq([k \in 1..Len(rs) |-> k], LAMBDA k : IsFrame(rs[k]))
    IN  [j \in 1..Len(idx) |-> reqs[idx[j]]]
\* image is the animation of exactly the frames this cycle fetched
IsAnimationOf(image, reqs, rs) ==
    /\ IsAnimation(image, FrameCount(rs))
    /\ [j \in 1..Len(image.frames) |-> image.frames[j].src] = FrameUrls(reqs, rs)

(***************************************************************************)
(* C1.  A call that finds _last_image_time equal to the rounded-up current *)
(* time minus 5 minutes, and _last_image not None, issues no fetch,        *)
(* returns _last_image as it is, and leaves _last_image, _last_image_time, *)
(* _last_image_time_pretty, _last_url and the state store unchanged, up to *)
(* and including its return.  A call made in the bucket of the latest full *)
(* success returns the bytes that cycle left, without a fetch.             *)
(***************************************************************************)
C1_GateHitIsFrameEffect ==
    [][\A i \in Procs :
        /\ (CallStep(i) /\ _last_image_time = Before(RoundedUp(clock)) /\ _last_image # None)
              => /\ pc'[i] = "returning"
                 /\ requests'[i] = None
                 /\ result'[i] = [ret |-> _last_image]
                 /\ UNCHANGED <<cache, states>>
        /\ (CallStep(i) /\ last_full # None /\ last_full.now = RoundedUp(clock))
              => /\ requests'[i] = None
                 /\ result'[i] = [ret |-> last_full.image]
        /\ (ServedByGate(i) /\ pc'[i] = "idle") => UNCHANGED <<cache, states>>
      ]_vars

\* a call is served by the gate with the animation of the full success of
\* its bucket
C1_Witness ==
    /\ ServedByGate(1)
    /\ last_full # None /\ last_full.now = now[1]
    /\ IsAnimation(last_full.image, 10)
    /\ result[1] = [ret |-> last_full.image]

(***************************************************************************)
(* C2.  In a cycle where fewer than 2 of the 10 fetches yield a frame (the *)
(* others ending with absence), the call returns the bytes cached before   *)
(* the cycle (None if there were none) and _last_image is unchanged.       *)
(* This is violated: with exactly one frame, line 152 has replaced         *)
(* _last_image by the body of that frame, and that is what is returned.    *)
(***************************************************************************)
C2_FewFramesKeepCache ==
    [][\A i \in Procs :
        (ResumeStep(i) /\ FramesOrAbsent(replies'[i]) /\ FrameCount(replies'[i]) < 2)
            => /\ result'[i] = [ret |-> _last_image]
               /\ _last_image' = _last_image
      ]_vars

(***************************************************************************)
(* C3.  In a cycle where k of the 10 fetches yield a frame, 2 <= k < 10,   *)
(* and the others end with absence, the call returns a newly encoded       *)
(* animation of exactly k frames, which is the new _last_image, while      *)
(* _last_image_time, _last_image_time_pretty and _last_url keep their      *)
(* values and the state store is not written.                              *)
(***************************************************************************)
C3_PartialKeepsMetadata ==
    [][\A i \in Procs :
        (/\ ResumeStep(i) /\ FramesOrAbsent(replies'[i])
         /\ FrameCount(replies'[i]) >= 2
         /\ FrameCount(replies'[i]) < Len(replies'[i]))
            => /\ IsAnimationOf(_last_image', requests[i], replies'[i])
               /\ result'[i] = [ret |-> _last_image']
               /\ UNCHANGED <<_last_image_time, _last_image_time_pretty, _last_url, states>>
      ]_vars

\* a partial cycle returns its animation after an earlier full success
\* whose metadata is still in place
C3_Witness ==
    /\ pc[1] = "returning" /\ replies[1] # None
    /\ FramesOrAbsent(replies[1])
    /\ FrameCount(replies[1]) = Len(replies[1]) - 1
    /\ ~IsFrame(replies[1][4])
    /\ IsAnimation(result[1].ret, 9)
    /\ _last_image_time # None /\ _last_image_time # Before(now[1])

(***************************************************************************)
(* C4.  extra_state_attributes is {"Updated at": None, "URL": None} as     *)
(* long as no cycle has had all 10 fetches yield a frame, and afterwards   *)
(* the ISO timestamp and the URL of the last bucket of the latest such     *)
(* cycle, whatever cycles (partial, insufficient, gate hits) came since.   *)
(***************************************************************************)
C4_AttributesOfLastFullSuccess ==
    extra_state_attributes =
        IF last_full = None
        THEN ("Updated at" :> None) @@ ("URL" :> None)
        ELSE ("Updated at" :> isoformat(Before(last_full.now)))
             @@ ("URL" :> RainMapUrl(Before(last_full.now)))

\* a partial cycle of a later bucket has run after a full success
C4_Witness ==
    /\ pc[1] = "returning" /\ replies[1] # None
    /\ FramesOrAbsent(replies[1])
    /\ FrameCount(replies[1]) >= 2 /\ FrameCount(replies[1]) < Len(replies[1])
    /\ last_full # None /\ last_full.now # now[1]
    /\ extra_state_attributes["Updated at"] = isoformat(Before(last_full.now))

(***************************************************************************)
(* C5.  When all 10 fetches of a cycle yield a frame, the animation has    *)
(* exactly 10 frames, _last_image_time is the last requested bucket (the   *)
(* rounded-up now minus 5 minutes), _last_image_time_pretty is its ISO     *)
(* rendering and _last_url is the URL the last frame was requested from.   *)
(***************************************************************************)
C5_FullSuccessCommits ==
    [][\A i \in Procs :
        (ResumeStep(i) /\ FrameCount(replies'[i]) = Len(requests[i]))
            => /\ IsAnimationOf(_last_image', requests[i], replies'[i])
               /\ Len(_last_image'.frames) = 10
               /\ _last_image_time' = Before(now[i])
               /\ _last_image_time' = timestamps[i][Len(timestamps[i])]
               /\ _last_image_time_pretty' = isoformat(Before(now[i]))
               /\ _last_url' = requests[i][Len(requests[i])]
      ]_vars

\* a full cycle has returned its animation and the metadata is that of its
\* last bucket
C5_Witness ==
    /\ pc[1] = "returning" /\ replies[1] # None
    /\ FrameCount(replies[1]) = 10
    /\ result[1] = [ret |-> _last_image]
    /\ IsAnimation(_last_image, 10)
    /\ _last_image_time = Before(now[1])
    /\ _last_url = requests[1][10]

(***************************************************************************)
(* C6.  No invocation of async_camera_image ends by raising an error: it   *)
(* returns image bytes or None, whatever the fetches give, decodable or    *)
(* not, and whatever the state store holds for the entity.                 *)
(* This is violated: an undecodable body raises in Image.open, and a full  *)
(* success raises when the entity has no stored state.                     *)
(***************************************************************************)
C6_NeverRaises ==
    \A i \in Procs : pc[i] = "returning" => "ret" \in DOMAIN result[i]

(***************************************************************************)
(* C7.  For every timestamp t, ceil_dt(t, 5 minutes) is >= t, is           *)
(* < t + 5 minutes, is a whole multiple of 5 minutes from datetime.min,    *)
(* is a fixed point of ceil_dt, and equals t when t is on a boundary.      *)
(* Checked for every t up to the clock and for the now of every call.      *)
(***************************************************************************)
IsCeil(t, c) ==
    /\ c.minutes >= t
    /\ c.minutes < t + BucketMinutes
    /\ (c.minutes - datetime_min.minutes) % BucketMinutes = 0
    /\ ceil_dt(c, BucketMinutes) = c
    /\ (t % BucketMinutes = 0) => c.minutes = t

C7_CeilDt ==
    /\ \A t \in 0..clock : IsCeil(t, ceil_dt([minutes |-> t], BucketMinutes))
    /\ \A i \in Procs : pc[i] # "idle" =>
          \E t \in 0..clock : now[i] = ceil_dt([minutes |-> t], BucketMinutes)
                              /\ IsCeil(t, now[i])

\* one call rounded its time up strictly, and the clock has since reached
\* a boundary, which rounds to itself
C7_Witness ==
    /\ pc[1] = "awaiting"
    /\ clock % BucketMinutes = 0
    /\ now[1].minutes = clock
    /\ ceil_dt([minutes |-> clock - 1], BucketMinutes) = now[1]

(***************************************************************************)
(* C8.  A cycle that passes the cache gate requests exactly 10 buckets:    *)
(* now - 50 min, now - 45 min, ..., now - 5 min with now on a 5-minute     *)
(* boundary, oldest first, 5 minutes apart, all before now, and issues     *)
(* exactly one fetch per bucket.                                           *)
(***************************************************************************)
C8_TenBuckets ==
    \A i \in Procs : (pc[i] # "idle" /\ ~ServedByGate(i)) =>
        /\ now[i].minutes % BucketMinutes = 0
        /\ Len(timestamps[i]) = 10
        /\ \A k \in 1..Len(timestamps[i]) :
              /\ timestamps[i][k].minutes = now[i].minutes - 50 + 5 * (k - 1)
              /\ timestamps[i][k].minutes < now[i].minutes
        /\ \A k \in 1..(Len(timestamps[i]) - 1) :
              timestamps[i][k + 1].minutes - timestamps[i][k].minutes = 5
        /\ Len(requests[i]) = Len(timestamps[i])
        /\ \A k \in 1..Len(requests[i]) : requests[i][k] = RainMapUrl(timestamps[i][k])
        /\ \A k, l \in 1..Len(requests[i]) : requests[i][k] = requests[i][l] => k = l

\* a cycle is suspended in gather with its 10 requests out
C8_Witness ==
    /\ pc[1] = "awaiting"
    /\ Len(requests[1]) = 10
    /\ timestamps[1][1] = [minutes |-> now[1].minutes - 50]
    /\ timestamps[1][10] = [minutes |-> now[1].minutes - 5]

(***************************************************************************)
(* C9, as claimed.  Among the invocations whose rounded-up time is the     *)
(* same bucket, at most one issues fetch requests.                         *)
(* This is violated: a cycle that is not a full success leaves the gate    *)
(* open, and the next call of the bucket fetches again.                    *)
(***************************************************************************)
C9_OneFanoutPerBucket ==
    [][\A i \in Procs :
        (CallStep(i) /\ pc'[i] = "awaiting") => last_fanout # RoundedUp(clock)
      ]_vars

(***************************************************************************)
(* C9, as amended.  Once all 10 fetches of a cycle of a bucket have        *)
(* yielded a frame, every later invocation of that bucket is served by the *)
(* cache gate and issues no fetch: a bucket has at most one full-success   *)
(* fan-out.                                                                *)
(***************************************************************************)
C9_NoFanoutAfterFullSuccess ==
    [][\A i \in Procs :
        (CallStep(i) /\ last_full # None /\ last_full.now = RoundedUp(clock))
            => (pc'[i] = "returning" /\ requests'[i] = None /\ last_fanout' = last_fanout)
      ]_vars

\* the bucket's only fan-out was a full success and a later call of the
\* bucket is served by the gate
C9_Witness ==
    /\ ServedByGate(1)
    /\ last_fanout = now[1]
    /\ last_full # None /\ last_full.now = last_fanout
    /\ now[1] = RoundedUp(clock)

(***************************************************************************)
(* C10.  A fetch never raises to the pipeline: a timeout, a non-2xx        *)
(* status, a transport error or any other exception during the request     *)
(* ends that fetch with None, and the cycle goes on with the results of    *)
(* the other fetches.                                                      *)
(***************************************************************************)
C10_FetchErrorsAreAbsence ==
    \A i \in Procs : (pc[i] = "returning" /\ replies[i] # None) =>
        /\ contents[i] # None
        /\ Len(contents[i]) = Len(replies[i])
        /\ \A k \in 1..Len(replies[i]) :
              IF IsFailure(replies[i][k])
              THEN contents[i][k] = None
              ELSE contents[i][k] = replies[i][k].content
        /\ "raise" \in DOMAIN result[i]
              => result[i].raise \notin {"TimeoutException", "HTTPStatusError",
                                         "RequestError", "RuntimeError"}

\* one fetch ended with an exception that is neither a timeout nor an HTTP
\* error, and the cycle returned the animation of the other nine
C10_Witness ==
    /\ pc[1] = "returning" /\ replies[1] # None
    /\ \E k \in 1..Len(replies[1]) :
          /\ replies[1][k] = [exc |-> "RuntimeError"]
          /\ contents[1][k] = None
    /\ "ret" \in DOMAIN result[1]
    /\ IsAnimation(result[1].ret, 9)

(***************************************************************************)
(* The fan-out seen one fetch at a time.  The 10 get_image coroutines of   *)
(* one gather call end one by one, in any order; gather keeps the result   *)
(* of each at the position of its awaitable and resumes the invocation     *)
(* when the last one has ended, or at once with the exception of one that  *)
(* raises.  This specification follows the first cycle of the entity.      *)
(***************************************************************************)
\* a fetch that has not ended yet
Pending == [pending |-> TRUE]

\* the replies received so far by the fetches of invocation i
Answers(i) ==
    IF replies[i] = None THEN [k \in 1..Len(requests[i]) |-> Pending] ELSE replies[i]

\* the kinds of reply a fetch of this specification may get
FanKinds == {"frame", "timeout", "other"}

\* kinds[k] is the kind of reply the k-th fetch got, "" while it is in
\* flight: the replies received so far are the beginning of what the
\* network may answer to one cycle (see ReplyPattern)
Fits(kinds) ==
    \E base \in FanKinds :
        LET odd == {k \in 1..Len(kinds) : kinds[k] \notin {"", base}}
        IN  /\ Cardinality(odd) <= MaxFlaky
            /\ \A k, l \in odd : kinds[k] = kinds[l]
            /\ base \in FailureKinds => \A k \in odd : kinds[k] \notin FailureKinds

\* the kind of a reply
KindOf(reply) ==
    IF reply = Pending THEN ""
    ELSE IF "exc" \in DOMAIN reply
    THEN CASE reply.exc = "TimeoutException" -> "timeout"
           [] reply.exc = "RequestError"     -> "transport"
           [] OTHER                          -> "other"
    ELSE IF reply.status # 200 THEN "status"
    ELSE IF reply.content.fmt = "png" THEN "frame" ELSE "junk"

\* lines 111-131 for the k-th awaitable of gather: the request is answered
\* and get_image ends
FetchEnds(i, k) ==
    /\ pc[i] = "awaiting"
    /\ k \in 1..Len(requests[i])
    /\ Answers(i)[k] = Pending
    /\ \E kinds \in {[j \in 1..Len(requests[i]) |-> KindOf(Answers(i)[j])]} :
         \E kind \in FanKinds :
            /\ Fits([kinds EXCEPT ![k] = kind])
            /\ \E reply \in {Reply(kind, requests[i][k])} :
                 /\ replies' = [replies EXCEPT ![i] = [Answers(i) EXCEPT ![k] = reply]]
                 /\ \E got \in {get_image(timestamps[i][k], reply)} :
                      IF "raise" \in DOMAIN got
                      THEN /\ pc' = [pc EXCEPT ![i] = "returning"]
                           /\ result' = [result EXCEPT ![i] = got]
                      ELSE UNCHANGED <<pc, result>>
    /\ UNCHANGED <<clock, cache, synced, states, now, timestamps, requests,
                   contents, history>>

\* every awaitable of gather has ended with a value that is not None
AllEndedWithBytes(i) ==
    /\ replies[i] # None
    /\ \A k \in 1..Len(replies[i]) : IsFrame(replies[i][k])

\* every awaitable of gather has ended
AllEnded(i) ==
    /\ replies[i] # None
    /\ \A k \in 1..Len(replies[i]) : replies[i][k] # Pending

\* lines 147-182: the last fetch has ended, gather returns and the
\* invocation runs to its return
JoinAll(i) ==
    /\ pc[i] = "awaiting"
    /\ AllEnded(i)
    /\ Resume(i, replies[i])
    /\ pc' = [pc EXCEPT ![i] = "returning"]
    /\ UNCHANGED <<clock, now, timestamps, requests, last_fanout, overlapped>>

\* the first cycle of the entity
FirstFetch == Sequential /\ last_fanout = None /\ StartFetch(1)

NextFan ==
    \/ Sequential /\ HostWriteState
    \/ FirstFetch
    \/ \E k \in 1..(LookbackMinutes \div BucketMinutes) : FetchEnds(1, k)
    \/ JoinAll(1)
    \/ Return(1)

SpecFan == Init /\ [][NextFan]_vars

(***************************************************************************)
(* C11.  Within one cycle nothing is decoded or composited and no field of *)
(* the cache is written before every one of the 10 fetches has ended: the  *)
(* invocation leaves gather only when no fetch is pending, whatever the    *)
(* order in which the fetches end.  A fetch that fails leaves the other    *)
(* fetches in flight and the invocation suspended.                         *)
(***************************************************************************)
C11_JoinWaitsForAll ==
    [][\A i \in Procs :
        /\ (pc[i] = "awaiting" /\ (pc'[i] # "awaiting" \/ cache' # cache \/ contents' # contents))
              => /\ AllEnded(i)
                 /\ Len(replies[i]) = LookbackMinutes \div BucketMinutes
        /\ (pc[i] = "awaiting" /\ ~AllEnded(i))
              => /\ pc'[i] = "awaiting"
                 /\ \A k \in 1..Len(requests[i]) :
                      Answers(i)[k] # Pending => replies'[i][k] = Answers(i)[k]
      ]_vars

\* the last fetch has failed while the first one is still in flight, and
\* the invocation is suspended with the cache untouched
C11_Witness ==
    /\ pc[1] = "awaiting"
    /\ replies[1] # None
    /\ replies[1][10] = [exc |-> "TimeoutException"]
    /\ replies[1][1] = Pending
    /\ \E k \in 2..9 : IsFrame(replies[1][k])
    /\ _last_image = None

(***************************************************************************)
(* C12.  Whatever the order in which the fetches of a cycle ended, the     *)
(* results gather returns stand at the positions of their requests, and    *)
(* the frames decoded from them are the frames of exactly the buckets      *)
(* whose fetch yielded one, each once, in ascending bucket order; there    *)
(* are between 0 and 10 of them, and an animation written by the cycle     *)
(* has these frames in this order.                                         *)
(***************************************************************************)
C12_FramesInBucketOrder ==
    \A i \in Procs :
        /\ (pc[i] = "awaiting" /\ replies[i] # None)
              => \A k \in 1..Len(replies[i]) :
                    IsFrame(replies[i][k]) => replies[i][k].content.url = requests[i][k]
        /\ (pc[i] = "returning" /\ contents[i] # None)
              => LET images == DecodeLoop(contents[i], 1,
                                   [last_image |-> None, images |-> <<>>, exc |-> ""]).images
                 IN  /\ \A j, k \in 1..Len(timestamps[i]) :
                            j < k => DtLess(timestamps[i][j], timestamps[i][k])
                     /\ \A k \in 1..Len(contents[i]) :
                            contents[i][k] = IF IsFrame(replies[i][k])
                                             THEN Png(RainMapUrl(timestamps[i][k])) ELSE None
                     /\ [j \in 1..Len(images) |-> images[j].src]
                            = FrameUrls(requests[i], replies[i])
                     /\ Len(images) \in 0..(LookbackMinutes \div BucketMinutes)
                     /\ Len(images) > 1 => IsAnimationOf(_last_image, requests[i], replies[i])

\* a cycle whose fifth fetch failed has returned the animation of the
\* other nine
C12_Witness ==
    /\ pc[1] = "returning"
    /\ contents[1] # None
    /\ contents[1][5] = None
    /\ FrameCount(replies[1]) = 9
    /\ _last_image # None
    /\ [j \in 1..Len(_last_image.frames) |-> _last_image.frames[j].src]
          = [j \in 1..9 |-> requests[1][IF j < 5 THEN j ELSE j + 1]]

(***************************************************************************)
(* C13.  After a cycle that wrote an animation of fewer than 10 frames,    *)
(* the next call is not served by the cache gate: it issues the 10 fetches *)
(* of its own bucket again.  (Calls do not overlap and the clock does not  *)
(* go back.)                                                               *)
(***************************************************************************)
C13_PartialThenFanout ==
    [][\A i \in Procs :
        (/\ CallStep(i)
         /\ \E n \in 2..(LookbackMinutes \div BucketMinutes - 1) : IsAnimation(_last_image, n))
            => /\ pc'[i] = "awaiting"
               /\ Len(requests'[i]) = LookbackMinutes \div BucketMinutes
               /\ \A k \in 1..Len(requests'[i]) :
                    requests'[i][k]
                       = RainMapUrl([minutes |-> RoundedUp(clock).minutes - LookbackMinutes
                                                 + (k - 1) * BucketMinutes])
      ]_vars

\* a full success, then a partial success in the next bucket, then a call
\* that fans out again
C13_Witness ==
    /\ pc[1] = "awaiting"
    /\ \E n \in 2..9 : IsAnimation(_last_image, n)
    /\ last_full # None
    /\ _last_image_time = Before(last_full.now)
    /\ Len(requests[1]) = 10

(***************************************************************************)
(* C14.  The store write of a full success (the entity has a stored state) *)
(* writes the state value that was read, sets "Updated at" and "URL" to    *)
(* the new pretty time and URL, and keeps every other attribute with its   *)
(* value; the state of no other entity is written, by this or any step.    *)
(***************************************************************************)
C14_StoreWriteMergesAttributes ==
    [][/\ states'[other_entity] = states[other_entity]
       /\ DOMAIN states' = DOMAIN states
       /\ \A i \in Procs :
            (/\ ResumeStep(i)
             /\ FrameCount(replies'[i]) = Len(requests[i])
             /\ states[entity_id] # None)
               => LET old == states[entity_id]
                      new == states'[entity_id]
                  IN  /\ new.state = old.state
                      /\ DOMAIN new.attributes = DOMAIN old.attributes \cup {"Updated at", "URL"}
                      /\ new.attributes["Updated at"] = isoformat(Before(now[i]))
                      /\ new.attributes["Updated at"] = _last_image_time_pretty'
                      /\ new.attributes["URL"] = RainMapUrl(Before(now[i]))
                      /\ new.attributes["URL"] = _last_url'
                      /\ \A key \in DOMAIN old.attributes \ {"Updated at", "URL"} :
                            new.attributes[key] = old.attributes[key]
                      /\ _last_state' = old.state
                      /\ _last_attributes' = old.attributes
                      /\ _updated_attributes' = new.attributes
      ]_vars

\* a full success has written the stored state: the attribute the host
\* had written is still there, next to the new time and URL
C14_Witness ==
    /\ pc[1] = "returning"
    /\ replies[1] # None
    /\ FrameCount(replies[1]) = 10
    /\ states[entity_id] # None
    /\ states[entity_id].state = "idle"
    /\ states[entity_id].attributes["friendly_name"] = name
    /\ states[entity_id].attributes["Updated at"] = isoformat(Before(now[1]))
    /\ states[entity_id].attributes["URL"] = RainMapUrl(Before(now[1]))
    /\ _updated_attributes = states[entity_id].attributes

(***************************************************************************)
(* Overlapping invocations.  The host may call async_camera_image again    *)
(* while an earlier invocation is suspended in gather; each invocation     *)
(* runs from its resumption to its return without suspension.  Invocation  *)
(* 2 is the one called while invocation 1 is in progress.  Every fetch of  *)
(* a cycle ends with a frame or with a timeout, and the fetches that       *)
(* answer differently from the rest are the first or the last ones.        *)
(***************************************************************************)
OverlapFlakySets == {D \in FlakySets : D \subseteq {1, LookbackMinutes \div BucketMinutes}}

OverlapJoin(i) ==
    /\ pc[i] = "awaiting"
    /\ \E base \in {"frame", "timeout"}, dev \in {"frame", "timeout"}, D \in OverlapFlakySets :
         /\ (D = {}) <=> (dev = base)
         /\ Resume(i, ReplyPattern(requests[i], base, dev, D))
    /\ pc' = [pc EXCEPT ![i] = "returning"]
    /\ UNCHANGED <<clock, now, timestamps, requests, last_fanout, overlapped>>

\* invocation 1 is suspended in gather and invocation 2 can be called
Overlapping == pc[1] = "awaiting" /\ pc[2] = "idle"

NextOverlap ==
    \/ Tick
    \/ HostWriteState
    \/ Sequential /\ GateHit(1)
    \/ Sequential /\ StartFetch(1)
    \/ Overlapping /\ GateHit(2)
    \/ Overlapping /\ StartFetch(2)
    \/ \E i \in Procs : OverlapJoin(i)
    \/ \E i \in Procs : Return(i)

SpecOverlap == Init /\ [][NextOverlap]_vars

\* a call would now be served by the cache gate with bytes that are not
\* the animation of the full success the metadata record
StaleGate ==
    /\ CacheGate(_last_image_time, _last_image, Now, BucketMinutes)
    /\ \/ last_full = None
       \/ _last_image # last_full.image
       \/ _last_image_time # Before(last_full.now)

(***************************************************************************)
(* C15.  When invocations overlap, a state is reachable in which the cache *)
(* gate matches while _last_image was written by another cycle than the    *)
(* full success that wrote _last_image_time and _last_url, and a call is   *)
(* then served bytes that are not that cycle's animation.  As long as no   *)
(* invocation was called while another was in progress, no such state is   *)
(* reachable.                                                              *)
(***************************************************************************)
C15_StaleGateOnlyByOverlap ==
    /\ StaleGate => overlapped
    /\ \A i \in Procs :
          (ServedByGate(i) /\ (last_full = None \/ result[i] # [ret |-> last_full.image]))
              => overlapped

\* a call served by the gate is about to return a partial animation, while
\* the metadata are those of a full success
C15_Witness ==
    \E i \in Procs :
        /\ ServedByGate(i)
        /\ last_full # None
        /\ _last_image_time = Before(last_full.now)
        /\ _last_url = RainMapUrl(Before(last_full.now))
        /\ IsAnimation(last_full.image, 10)
        /\ \E n \in 2..9 : IsAnimation(result[i].ret, n)
        /\ overlapped

(***************************************************************************)
(* C18.  In every reachable state, those reached by overlapping            *)
(* invocations included, _last_image_time, _last_image_time_pretty and     *)
(* _last_url are all None, or are one bucket timestamp, its ISO rendering  *)
(* and the rain map URL built from it.                                     *)
(***************************************************************************)
C18_MetadataOfOneBucket ==
    \/ /\ _last_image_time = None
       /\ _last_image_time_pretty = None
       /\ _last_url = None
    \/ /\ _last_image_time # None
       /\ _last_image_time.minutes % BucketMinutes = 0
       /\ _last_image_time_pretty = isoformat(_last_image_time)
       /\ _last_url = RainMapUrl(_last_image_time)

\* the metadata were committed by one of two overlapping invocations, the
\* other one, of a later bucket, is still suspended
C18_Witness ==
    /\ overlapped
    /\ _last_image_time # None
    /\ _last_image_time_pretty = isoformat(_last_image_time)
    /\ _last_url = RainMapUrl(_last_image_time)
    /\ \E i \in Procs : pc[i] = "awaiting" /\ DtLess(DtAdd(_last_image_time, BucketMinutes), now[i])

(***************************************************************************)
(* C16.  In an animation of n frames (n >= 2, the number of frames that    *)
(* were decoded, not the 10 requested) the progress bar of the frame at    *)
(* index i (from 0) has length i * width / (n - 1): 0 on the first frame,  *)
(* the full width on the last one, and never shorter than on the frame     *)
(* before.                                                                 *)
(***************************************************************************)
C16_ProgressBar ==
    /\ (_last_image # None /\ _last_image.fmt = "gif")
          => LET frames == _last_image.frames
                 n == Len(frames)
             IN  /\ n >= 2
                 /\ \A j \in 1..n :
                      /\ frames[j].bar # None
                      /\ frames[j].bar.den = n - 1
                      /\ frames[j].bar.num = (j - 1) * frames[j].width
                 /\ frames[1].bar.num = 0
                 /\ frames[n].bar.num = frames[n].width * frames[n].bar.den
                 /\ \A j \in 1..(n - 1) :
                      frames[j].bar.num * frames[j + 1].bar.den
                         <= frames[j + 1].bar.num * frames[j].bar.den
    /\ \A i \in Procs :
          (/\ pc[i] = "returning" /\ contents[i] # None
           /\ FramesOrAbsent(replies[i]) /\ FrameCount(replies[i]) >= 2)
              => IsAnimation(_last_image, FrameCount(replies[i]))

\* an animation of the 9 frames of a partial success: the bar of the fifth
\* frame is 4/8 of the width, the bar of the last frame the full width
C16_Witness ==
    /\ pc[1] = "returning"
    /\ replies[1] # None
    /\ FrameCount(replies[1]) = 9
    /\ IsAnimation(_last_image, 9)
    /\ _last_image.frames[1].bar = [num |-> 0, den |-> 8]
    /\ _last_image.frames[5].bar = [num |-> 4 * FrameWidth, den |-> 8]
    /\ _last_image.frames[9].bar = [num |-> 8 * FrameWidth, den |-> 8]

(***************************************************************************)
(* C19.  _last_image, once not None, is never None again, and a cycle in   *)
(* which a fetch returned bytes leaves it not None: an invocation returns  *)
(* None only while no fetch has returned bytes since the entity was        *)
(* created.  A cycle whose 10 fetches all fail leaves _last_image, the     *)
(* metadata and the stored state as they were.                             *)
(***************************************************************************)
C19_ImageStaysOnceFetched ==
    [][/\ _last_image # None => _last_image' # None
       /\ \A i \in Procs :
            /\ (ResumeStep(i) /\ \E k \in 1..Len(replies'[i]) : ~IsFailure(replies'[i][k]))
                  => _last_image' # None
            /\ (pc[i] # "returning" /\ pc'[i] = "returning" /\ result'[i] = [ret |-> None])
                  => /\ _last_image = None /\ _last_image' = None
                     /\ replies'[i] # None => \A k \in 1..Len(replies'[i]) : IsFailure(replies'[i][k])
            /\ (ResumeStep(i) /\ \A k \in 1..Len(replies'[i]) : IsFailure(replies'[i][k]))
                  => /\ Len(replies'[i]) = LookbackMinutes \div BucketMinutes
                     /\ UNCHANGED <<cache, synced, states>>
                     /\ result'[i] = [ret |-> _last_image]
      ]_vars

\* after a full success, a cycle whose 10 fetches all failed is about to
\* return the animation that was cached
C19_Witness ==
    /\ pc[1] = "returning"
    /\ replies[1] # None
    /\ \A k \in 1..10 : IsFailure(replies[1][k])
    /\ last_full # None /\ last_full.now # now[1]
    /\ _last_image = last_full.image
    /\ _last_image_time = Before(last_full.now)
    /\ result[1] = [ret |-> _last_image]

(***************************************************************************)
(* C20.  With calls that do not overlap and a clock that does not go back, *)
(* _last_image_time never decreases; a call is served by the cache gate    *)
(* only in the bucket in which the most recent full success ran; and the   *)
(* first call made after the clock has moved into a later bucket than that *)
(* of the latest fan-out issues the 10 fetches.                            *)
(***************************************************************************)
C20_GateOnlyInBucketOfFullSuccess ==
    [][/\ _last_image_time # None
            => /\ _last_image_time' # None
               /\ ~DtLess(_last_image_time', _last_image_time)
       /\ \A i \in Procs :
            /\ (CallStep(i) /\ pc'[i] = "returning")
                  => /\ last_full # None
                     /\ last_full.now = RoundedUp(clock)
                     /\ _last_image_time = Before(last_full.now)
            /\ (CallStep(i) /\ (last_fanout = None \/ DtLess(last_fanout, RoundedUp(clock))))
                  => /\ pc'[i] = "awaiting"
                     /\ Len(requests'[i]) = LookbackMinutes \div BucketMinutes
                     /\ last_fanout' = RoundedUp(clock)
      ]_vars

\* a call made in the bucket after that of a full success has issued its
\* fetches
C20_Witness ==
    /\ pc[1] = "awaiting"
    /\ last_full # None
    /\ _last_image = last_full.image
    /\ _last_image_time = Before(last_full.now)
    /\ now[1] = DtAdd(last_full.now, BucketMinutes)
    /\ Len(requests[1]) = 10

\* what is left to do before invocation i returns: the fetches in flight,
\* the resumption, the return
Rank(state, reqs, rs) ==
    CASE state = "idle"      -> 0
      [] state = "returning" -> 1
      [] state = "awaiting"  ->
            2 + IF rs = None THEN Len(reqs)
                ELSE Cardinality({k \in 1..Len(rs) : rs[k] = Pending})

====
